---- MODULE Spec2Model ----
(***************************************************************************)
(* make_slow_change_stimuli.py: a batch script that turns sets of still    *)
(* images (one per colour x quick-change state) into slow-change videos.   *)
(* The script is one sequential process; its state is the three working    *)
(* directories, the README manifest, and the locals of the per-scene loop. *)
(*                                                                         *)
(* A file name is a record [segs, ext]: the tokens between '_' and the     *)
(* extension.  An image is a symbolic value: a still read from jpg_path or *)
(* a weighted average of two images (weights kept as exact fractions).     *)
(***************************************************************************)
EXTENDS Integers, Sequences, FiniteSets, TLC

\* ---------------------------------------------------------------- bounds
MaxSeconds == 2       \* morph_length_seconds ranges over 2..MaxSeconds
MaxFps == 3           \* steps_per_second_video ranges over 2..MaxFps
MaxScenes == 2        \* number of Img# roots in the folder
MaxFeatures == 2      \* quick changes encoded in a file name
MaxStills == 8        \* number of .jpg stills in the folder
RandRes == 48         \* numpy.random.rand() is r / RandRes, r in 0..RandRes-1: fine enough
                      \* for every onset the planner can produce to be drawn

\* ------------------------------------------------------ program constants
no_change_in_seconds == 2
PropNum == 3          \* quick_change_time_section_proportion = 3/4
PropDen == 4

VARIABLES
    morph_length_seconds,        \* configured globals (lines 24-25)
    steps_per_second_video,
    jpg_path,                    \* set of file names in the colour folder
    temp_path,                   \* function: file name -> image
    morph_path,                  \* function: .tif file name -> frame
    makeVideo_txt,               \* [exists, lines]: morph_path/makeVideo.txt
    readme,                      \* sequence of paragraphs of README.txt
    videos,                      \* video_file_names handed to ffmpeg
    pc,                          \* position in the script
    roots_left,                  \* filename_roots not yet iterated
    attempted,                   \* filename_roots whose iteration began
    filename_root,
    slow_change_options,
    num_quick_changes,
    all_quick_change_options,
    quick_changes_in_name_order,
    quick_change_frames,
    curr_frame_index,
    change_idx,
    this_filename

vars == <<morph_length_seconds, steps_per_second_video, jpg_path, temp_path,
          morph_path, makeVideo_txt, readme, videos, pc, roots_left,
          attempted, filename_root, slow_change_options, num_quick_changes,
          all_quick_change_options, quick_changes_in_name_order,
          quick_change_frames, curr_frame_index, change_idx, this_filename>>

\* ------------------------------------------------------- derived globals
number_of_morph_steps == morph_length_seconds * steps_per_second_video

no_change_in_frames == no_change_in_seconds * steps_per_second_video

quick_change_length_frames == steps_per_second_video

\* int(quick_change_length_frames / 2)
HalfWindow == quick_change_length_frames \div 2

\* change_step = 1 / (quick_change_length_frames + 1); counts are kept
\* doubled (count is o + w/2 - k, a half-integer when w is odd), so the
\* common denominator of the quick-change weights is 2 * (w + 1).
ChangeStepDen == 2 * (quick_change_length_frames + 1)

color == <<"Yellow", "Orange">>

\* ------------------------------------------------------------ file names
FileName(segs, ext) == [segs |-> segs, ext |-> ext]

\* name.split('_'): the last piece carries the extension.
Split(name) ==
    [i \in 1..Len(name.segs) |->
        <<name.segs[i], IF i = Len(name.segs) THEN name.ext ELSE "">>]

\* piece.split('.')[0]
SplitDot0(piece) == piece[1]

\* the text of a piece that carries no extension
Plain(tok) == <<tok, "">>

\* re.sub(pat, rep, name): every token equal to pat is replaced.  The header
\* (line 7) requires each portion between '_' to be unique, so a pattern
\* matches whole tokens only.
ReSub(pat, rep, name) ==
    [name EXCEPT !.segs =
        [i \in 1..Len(name.segs) |->
            IF name.segs[i] = pat THEN rep ELSE name.segs[i]]]

MorphToken(k) == "morph" \o ToString(k)

\* ----------------------------------------------------------------- images
Still(name) == <<"still", name>>

\* astype(uint8) of A * (wa / den) + B * (wb / den)
Average(A, B, wa, wb, den) == <<"avg", A, B, wa, wb, den>>

\* ------------------------------------------------- the folder of stills
RootName(s) == "Img0" \o ToString(s)

StateName(f, b) == (IF b THEN "yes" ELSE "no") \o ToString(f)

SceneFiles(s, n) ==
    { FileName(<<RootName(s), c>> \o [f \in 1..n |-> StateName(f, v[f])], "jpg") :
        c \in {color[1], color[2]}, v \in [1..n -> BOOLEAN] }

\* complete folders: scenes Img01..Img0m, scene s with n[s] quick changes
Folders ==
    { d \in UNION { { UNION { SceneFiles(s, n[s]) : s \in 1..m } :
                        n \in [1..m -> 0..MaxFeatures] } : m \in 1..MaxScenes } :
        Cardinality(d) <= MaxStills }

NoName == FileName(<<>>, "")

\* ----------------------------------------------------------- directories
EmptyDir == [n \in {} |-> n]

\* image.save(os.path.join(dir, name)): creates or overwrites
Save(dir, name, data) ==
    [n \in DOMAIN dir \cup {name} |-> IF n = name THEN data ELSE dir[n]]

\* all the ways of listing a set: list(set(...)) has no defined order
Orders(S) ==
    { s \in [1..Cardinality(S) -> S] :
        \A i, j \in 1..Cardinality(S) : i # j => s[i] # s[j] }

\* numpy.random.shuffle(seq): any rearrangement
Shuffles(seq) ==
    { [i \in 1..Len(seq) |-> seq[p[i]]] : p \in Permutations(1..Len(seq)) }

\* pixel dimensions of the stills of a scene: Img01 is 2 x 2, Img02 3 x 2, ...
StillSize(name) ==
    IF name.segs[1] = RootName(1) THEN <<2, 2>>
    ELSE IF name.segs[1] = RootName(2) THEN <<3, 2>>
    ELSE <<3, 3>>

RECURSIVE SizeOf(_)
SizeOf(img) == IF img[1] = "still" THEN StillSize(img[2]) ELSE SizeOf(img[2])
\* line 58: the .jpg files of the folder
jpg_file_names == { f \in jpg_path : f.ext = "jpg" }

\* line 59: the unique strings before the first '_'
FilenameRoots == { Split(f)[1] : f \in jpg_file_names }

Init ==
    \* the configured globals: two seconds and two frames per second at the
    \* least, so that a quick change has a frame on each side of its onset
    /\ morph_length_seconds \in 2..MaxSeconds
    /\ steps_per_second_video \in 2..MaxFps
    /\ \E full \in Folders :
         \E missing \in {{}} \cup { {f} : f \in full } :
            jpg_path = full \ missing
    /\ temp_path = EmptyDir
    /\ morph_path = EmptyDir
    /\ makeVideo_txt = [exists |-> FALSE, lines |-> << >>]
    /\ readme = << >>
    /\ videos = << >>
    /\ pc = "loop"
    /\ roots_left = FilenameRoots
    /\ attempted = {}
    /\ filename_root = Plain("")
    /\ slow_change_options = << >>
    /\ num_quick_changes = 0
    /\ all_quick_change_options = << >>
    /\ quick_changes_in_name_order = << >>
    /\ quick_change_frames = << >>
    /\ curr_frame_index = 0
    /\ change_idx = 0
    /\ this_filename = NoName

\* ------------------------------------------------------------ the script
\* line 65
TheseFileNames(root) == { f \in jpg_file_names : Split(f)[1] = root }

\* line 75: the values seen at one position of the names of a scene
TheseQuickChangeOptions(root, q) ==
    { Split(f)[q + 2] : f \in TheseFileNames(root) }

\* lines 74-78: for each position, its values in some order, extension cut
NameOrders(root, n) ==
    { o \in [1..n -> UNION { { [i \in DOMAIN s |-> SplitDot0(s[i])] :
                                 s \in Orders(TheseQuickChangeOptions(root, q)) } :
                             q \in 1..n }] :
        \A q \in 1..n :
            \E s \in Orders(TheseQuickChangeOptions(root, q)) :
                o[q] = [i \in DOMAIN s |-> SplitDot0(s[i])] }

\* lines 61-80: next scene; group its files, shuffle colours and changes
StartScene ==
    /\ pc = "loop"
    /\ \E root \in roots_left :
         /\ filename_root' = root
         /\ roots_left' = roots_left \ {root}
         /\ attempted' = attempted \cup {root}
         /\ slow_change_options' \in Shuffles(color)
         /\ \E first \in TheseFileNames(root) :
              /\ num_quick_changes' = Len(Split(first)) - 2
              /\ \E o \in NameOrders(root, Len(Split(first)) - 2) :
                   /\ quick_changes_in_name_order' = o
                   /\ all_quick_change_options' \in Shuffles(o)
    /\ pc' = "readme"
    /\ UNCHANGED <<morph_length_seconds, steps_per_second_video, jpg_path,
                   temp_path, morph_path, makeVideo_txt, readme, videos,
                   quick_change_frames, curr_frame_index, change_idx,
                   this_filename>>

\* lines 92-96: the paragraph of one scene, its change lines up to the first
\* pair that has no second value (IndexError)
ReadmeParagraph ==
    LET bad == { i \in 1..num_quick_changes :
                    Len(all_quick_change_options[i]) < 2 }
        upto == IF bad = {} THEN num_quick_changes
                ELSE (CHOOSE i \in bad : \A j \in bad : i <= j) - 1
    IN  [scene |-> filename_root[1],
         beginning |-> slow_change_options[1],
         ending |-> slow_change_options[2],
         count |-> num_quick_changes,
         changes |-> [i \in 1..upto |-> all_quick_change_options[i]]]

\* lines 82-96: append the scene's paragraph to README.txt
WriteReadme ==
    /\ pc = "readme"
    /\ readme' = Append(readme, ReadmeParagraph)
    /\ pc' = IF \E i \in 1..num_quick_changes :
                   Len(all_quick_change_options[i]) < 2
             THEN "crashed" ELSE "slow"
    /\ UNCHANGED <<morph_length_seconds, steps_per_second_video, jpg_path,
                   temp_path, morph_path, makeVideo_txt, videos, roots_left,
                   attempted, filename_root, slow_change_options,
                   num_quick_changes, all_quick_change_options,
                   quick_changes_in_name_order, quick_change_frames,
                   curr_frame_index, change_idx, this_filename>>

\* line 99
FileNamesFirstSlowOption ==
    { f \in TheseFileNames(filename_root) :
        Split(f)[2] = Plain(slow_change_options[1]) }

\* line 105
FileNameSecondSlowOption(f) ==
    ReSub(slow_change_options[1], slow_change_options[2], f)

\* line 110: weighted average of the two colour versions at one morph step
ImageDataMorph(f, morph_step) ==
    Average(Still(f), Still(FileNameSecondSlowOption(f)),
            number_of_morph_steps - morph_step, morph_step,
            number_of_morph_steps)

\* line 114
SlowOutputFilename(f, morph_step) ==
    ReSub(slow_change_options[1], MorphToken(morph_step), f)

\* lines 108-115 for every file of `files`: the morph frames left in temp_path
SlowMorphs(dir, files) ==
    LET made == files \X (0..number_of_morph_steps)
        names == { SlowOutputFilename(p[1], p[2]) : p \in made }
        src(n) == CHOOSE p \in made : SlowOutputFilename(p[1], p[2]) = n
    IN  [n \in DOMAIN dir \cup names |->
            IF n \in names THEN ImageDataMorph(src(n)[1], src(n)[2])
            ELSE dir[n]]

\* lines 98-115: the colour morph of every first-colour still.  Image.open of
\* a second-colour still that is absent raises; the files listed before it
\* (in os.listdir's order, which is arbitrary) have been morphed by then.
SlowColorMorph ==
    /\ pc = "slow"
    /\ LET first == FileNamesFirstSlowOption
           failing == { f \in first : FileNameSecondSlowOption(f) \notin jpg_path }
       IN  IF failing = {}
           THEN /\ temp_path' = SlowMorphs(temp_path, first)
                /\ pc' = "route"
           ELSE /\ \E done \in SUBSET (first \ failing) :
                     temp_path' = SlowMorphs(temp_path, done)
                /\ pc' = "crashed"
    /\ UNCHANGED <<morph_length_seconds, steps_per_second_video, jpg_path,
                   morph_path, makeVideo_txt, readme, videos, roots_left,
                   attempted, filename_root, slow_change_options,
                   num_quick_changes, all_quick_change_options,
                   quick_changes_in_name_order, quick_change_frames,
                   curr_frame_index, change_idx, this_filename>>

\* (mutant for C2) the random term is not scaled by the section proportion
NewChangeMomentPropWholeSection(quick_change_index, r) ==
    <<2 * quick_change_index * PropDen * RandRes
        + (PropDen - PropNum) * RandRes
        + 2 * PropDen * r,
      2 * num_quick_changes * PropDen * RandRes>>

\* line 120: new_change_moment_prop as the fraction <<numerator, denominator>>,
\* with numpy.random.rand() = r / RandRes
NewChangeMomentProp(quick_change_index, r) ==
    <<2 * quick_change_index * PropDen * RandRes
        + (PropDen - PropNum) * RandRes
        + 2 * PropNum * r,
      2 * num_quick_changes * PropDen * RandRes>>

\* line 121: int(new_change_moment_prop * (number_of_morph_steps + 1))
NewChangeMomentFrame(quick_change_index, r) ==
    LET prop == NewChangeMomentProp(quick_change_index, r)
    IN  (prop[1] * (number_of_morph_steps + 1)) \div prop[2]

\* lines 127-130: the name of frame k with every change in its first state
InitialFilename(k) ==
    FileName(<<filename_root[1], MorphToken(k)>>
                \o [i \in 1..Len(quick_changes_in_name_order) |->
                        quick_changes_in_name_order[i][1]],
             "jpg")

\* lines 117-122: draw the moment of every quick change; enter the frame loop
ChooseRoute ==
    /\ pc = "route"
    /\ \E r \in [1..num_quick_changes -> 0..(RandRes - 1)] :
         quick_change_frames' =
            [i \in 1..num_quick_changes |-> NewChangeMomentFrame(i - 1, r[i])]
    /\ curr_frame_index' = 0
    /\ this_filename' = InitialFilename(0)
    /\ change_idx' = 1
    /\ pc' = "frame"
    /\ UNCHANGED <<morph_length_seconds, steps_per_second_video, jpg_path,
                   temp_path, morph_path, makeVideo_txt, readme, videos,
                   roots_left, attempted, filename_root, slow_change_options,
                   num_quick_changes, all_quick_change_options,
                   quick_changes_in_name_order>>

\* line 138: the change is happening at frame k
WhileChanging(k, onset) ==
    /\ k >= onset - HalfWindow
    /\ k < onset + HalfWindow

\* (mutant for C11) the change counts as occurred one frame late
HasChangedStrict(k, onset) == k > onset + HalfWindow

\* line 157: the change has occurred by frame k
HasChanged(k, onset) == k >= onset + HalfWindow

\* line 144, doubled: 2 * (onset + quick_change_length_frames / 2 - k)
Count2(k, onset) == 2 * onset + quick_change_length_frames - 2 * k

\* (mutant for C3) the two weights exchanged
QuickChangeMorphSwapped(imgA, imgB, k, onset) ==
    Average(imgA, imgB, ChangeStepDen - Count2(k, onset), Count2(k, onset),
            ChangeStepDen)

\* line 147: imgA weighted change_step * count, imgB the rest
QuickChangeMorph(imgA, imgB, k, onset) ==
    Average(imgA, imgB, Count2(k, onset), ChangeStepDen - Count2(k, onset),
            ChangeStepDen)

\* lines 133-158, one pass of the loop over the quick changes
QuickChange ==
    /\ pc = "frame"
    /\ change_idx <= Len(all_quick_change_options)
    /\ LET pair == all_quick_change_options[change_idx]
           onset == quick_change_frames[change_idx]
           imgA == this_filename
           imgB == ReSub(pair[1], pair[2], this_filename)
           output_filename == ReSub(pair[1], "avg", imgA)
       IN  IF WhileChanging(curr_frame_index, onset)
           THEN IF imgA \in DOMAIN temp_path /\ imgB \in DOMAIN temp_path
                THEN /\ temp_path' =
                          Save(temp_path, output_filename,
                               QuickChangeMorph(temp_path[imgA], temp_path[imgB],
                                                curr_frame_index, onset))
                     /\ this_filename' = output_filename
                     /\ change_idx' = change_idx + 1
                     /\ pc' = pc
                ELSE /\ pc' = "crashed"
                     /\ UNCHANGED <<temp_path, this_filename, change_idx>>
           ELSE /\ this_filename' =
                      IF HasChanged(curr_frame_index, onset)
                      THEN ReSub(pair[1], pair[2], this_filename)
                      ELSE this_filename
                /\ change_idx' = change_idx + 1
                /\ UNCHANGED <<temp_path, pc>>
    /\ UNCHANGED <<morph_length_seconds, steps_per_second_video, jpg_path,
                   morph_path, makeVideo_txt, readme, videos, roots_left,
                   attempted, filename_root, slow_change_options,
                   num_quick_changes, all_quick_change_options,
                   quick_changes_in_name_order, quick_change_frames,
                   curr_frame_index>>

\* lines 162-165: both dimensions made even
Resize(img) ==
    LET size == SizeOf(img)
    IN  <<"frame", img,
          <<IF size[1] % 2 # 0 THEN size[1] + 1 ELSE size[1],
            IF size[2] % 2 # 0 THEN size[2] + 1 ELSE size[2]>>>>

\* line 166
FrameFilename(k) == FileName(<<filename_root[1], MorphToken(k)>>, "tif")

\* lines 160-167: save the chosen version of the frame as .tif; next frame
SaveFrame ==
    /\ pc = "frame"
    /\ change_idx > Len(all_quick_change_options)
    /\ IF this_filename \in DOMAIN temp_path
       THEN /\ morph_path' = Save(morph_path, FrameFilename(curr_frame_index),
                                  Resize(temp_path[this_filename]))
            /\ IF curr_frame_index < number_of_morph_steps
               THEN /\ curr_frame_index' = curr_frame_index + 1
                    /\ this_filename' = InitialFilename(curr_frame_index + 1)
                    /\ change_idx' = 1
                    /\ pc' = pc
               ELSE /\ pc' = "video"
                    /\ UNCHANGED <<curr_frame_index, this_filename, change_idx>>
       ELSE /\ pc' = "crashed"
            /\ UNCHANGED <<morph_path, curr_frame_index, this_filename,
                           change_idx>>
    /\ UNCHANGED <<morph_length_seconds, steps_per_second_video, jpg_path,
                   temp_path, makeVideo_txt, readme, videos, roots_left,
                   attempted, filename_root, slow_change_options,
                   num_quick_changes, all_quick_change_options,
                   quick_changes_in_name_order, quick_change_frames>>

\* lines 178-182: the lines written for one scene
MakeVideoLines ==
    [i \in 1..no_change_in_frames |-> FrameFilename(0)]
    \o <<FileName(<<filename_root[1], "morph%d">>, "tif")>>
    \o [i \in 1..no_change_in_frames |-> FrameFilename(number_of_morph_steps)]

\* line 185
VideoFileName == FileName(<<filename_root[1], color[1] \o color[2]>>, "mp4")

\* lines 169-192: append the frame list to makeVideo.txt and run ffmpeg on it
MakeVideo ==
    /\ pc = "video"
    /\ makeVideo_txt' =
          [exists |-> TRUE,
           lines |-> makeVideo_txt.lines
                        \o (IF Len(makeVideo_txt.lines) > 0
                            THEN <<NoName>> ELSE << >>)
                        \o MakeVideoLines]
    /\ videos' = Append(videos, VideoFileName)
    /\ pc' = "cleanup"
    /\ UNCHANGED <<morph_length_seconds, steps_per_second_video, jpg_path,
                   temp_path, morph_path, readme, roots_left, attempted,
                   filename_root, slow_change_options, num_quick_changes,
                   all_quick_change_options, quick_changes_in_name_order,
                   quick_change_frames, curr_frame_index, change_idx,
                   this_filename>>

MakeVideoTxtName == FileName(<<"makeVideo">>, "txt")

\* line 199: '.tif' in file_name
HasTif(name) == name.ext = "tif"

\* lines 196-197: every file of temp_path is removed
ClearedTemp(dir) == [n \in {} |-> dir[n]]

\* (mutant for C9) the loop over morph_path left out
ClearedMorphKept(dir) == dir

\* lines 198-200: the files of morph_path with '.tif' in their name are removed
ClearedMorph(dir) == [n \in { m \in DOMAIN dir : ~HasTif(m) } |-> dir[n]]

\* lines 194-203: clear the working directories, truncate makeVideo.txt; the
\* for loop then takes the next root, or the script ends
Cleanup ==
    /\ pc = "cleanup"
    /\ temp_path' = ClearedTemp(temp_path)
    /\ morph_path' = ClearedMorph(morph_path)
    /\ IF makeVideo_txt.exists /\ HasTif(MakeVideoTxtName)
       THEN \* removed by the loop, and open(..., "r+") of it raises
            /\ makeVideo_txt' = [exists |-> FALSE, lines |-> << >>]
            /\ pc' = "crashed"
       ELSE /\ makeVideo_txt' = [makeVideo_txt EXCEPT !.lines = << >>]
            /\ pc' = IF ~makeVideo_txt.exists THEN "crashed"
                     ELSE IF roots_left = {} THEN "done" ELSE "loop"
    /\ UNCHANGED <<morph_length_seconds, steps_per_second_video, jpg_path,
                   readme, videos, roots_left, attempted, filename_root,
                   slow_change_options, num_quick_changes,
                   all_quick_change_options, quick_changes_in_name_order,
                   quick_change_frames, curr_frame_index, change_idx,
                   this_filename>>

Next ==
    \/ StartScene
    \/ WriteReadme
    \/ SlowColorMorph
    \/ ChooseRoute
    \/ QuickChange
    \/ SaveFrame
    \/ MakeVideo
    \/ Cleanup

Spec == Init /\ [][Next]_vars

\* ================================================================ claims
\* positions of the script inside the iteration of one scene
InScene == pc \in {"readme", "slow", "route", "frame", "video", "cleanup", "crashed"}

\* the moments of the quick changes of the current scene have been drawn
Planned == pc \in {"frame", "video", "cleanup"}

\* every colour x quick-change combination the current scene declares
DeclaredStills ==
    { FileName(<<filename_root[1], c>> \o v, "jpg") :
        c \in {color[1], color[2]},
        v \in { s \in [1..num_quick_changes ->
                        UNION { { quick_changes_in_name_order[q][i] :
                                    i \in 1..Len(quick_changes_in_name_order[q]) } :
                                q \in 1..num_quick_changes }] :
                  \A q \in 1..num_quick_changes :
                     \E i \in 1..Len(quick_changes_in_name_order[q]) :
                        s[q] = quick_changes_in_name_order[q][i] } }

MissingStills == DeclaredStills \ jpg_path

\* frame k lies in [onset - half_window, onset + half_window)
InTransitionWindow(k, onset) ==
    /\ onset - (quick_change_length_frames \div 2) <= k
    /\ k < onset + (quick_change_length_frames \div 2)

TwoChangesOverlap ==
    \E i, j \in 1..num_quick_changes :
        /\ i # j
        /\ \E k \in 0..number_of_morph_steps :
              /\ InTransitionWindow(k, quick_change_frames[i])
              /\ InTransitionWindow(k, quick_change_frames[j])

\* C1 (as claimed): whatever moments are drawn for a scene with two or more
\* quick changes, no frame index 0..total_frames lies inside the transition
\* window of two different changes.
C1_TransitionWindowsDisjoint ==
    (Planned /\ num_quick_changes >= 2) => ~TwoChangesOverlap

\* the section bounds i/N + m and (i+1)/N - m, m = (1/N)(1 - 3/4)/2, as
\* numerators over SectionDen (i counted from 1 here)
SectionDen == 2 * num_quick_changes * PropDen

SectionLowNum(i) == 2 * (i - 1) * PropDen + (PropDen - PropNum)

SectionHighNum(i) == 2 * i * PropDen - (PropDen - PropNum)

\* C2 (as claimed): every onset lies strictly between (i/N + m) * total_frames
\* and ((i+1)/N - m) * total_frames.
C2_OnsetStrictlyInsideOfTotalFrames ==
    Planned =>
        \A i \in 1..num_quick_changes :
            /\ SectionLowNum(i) * number_of_morph_steps
                  < quick_change_frames[i] * SectionDen
            /\ quick_change_frames[i] * SectionDen
                  < SectionHighNum(i) * number_of_morph_steps

\* C2 (amended): every onset o of change i satisfies
\* floor((i/N + m) * (total_frames + 1)) <= o < ((i+1)/N - m) * (total_frames + 1).
C2_OnsetInsideOfFrameCount ==
    Planned =>
        \A i \in 1..num_quick_changes :
            /\ (SectionLowNum(i) * (number_of_morph_steps + 1)) \div SectionDen
                  <= quick_change_frames[i]
            /\ quick_change_frames[i] * SectionDen
                  < SectionHighNum(i) * (number_of_morph_steps + 1)

\* an onset on the lower edge of its section, where the claimed strict bound
\* in terms of total_frames does not hold
C2_Witness ==
    /\ Planned
    /\ \E i \in 1..num_quick_changes :
          /\ i >= 2
          /\ quick_change_frames[i]
                = (SectionLowNum(i) * (number_of_morph_steps + 1)) \div SectionDen
          /\ quick_change_frames[i] * SectionDen
                <= SectionLowNum(i) * number_of_morph_steps

\* the colour morph at index k of the two stills whose single quick change
\* has value `state` (scene with one quick change)
ColourMorphOf(state, k) ==
    Average(Still(FileName(<<filename_root[1], slow_change_options[1], state>>, "jpg")),
            Still(FileName(<<filename_root[1], slow_change_options[2], state>>, "jpg")),
            number_of_morph_steps - k, k, number_of_morph_steps)

SavedFrames == { k \in 0..number_of_morph_steps : FrameFilename(k) \in DOMAIN morph_path }

FrameImage(k) == morph_path[FrameFilename(k)][2]

\* C3: in a scene with one quick change with onset o, every frame before
\* o - half_window is the colour morph of the pre-change stills, every frame
\* from o + half_window on is the colour morph of the post-change stills, and
\* the frames between are averages of the two whose weight toward the
\* post-change image lies strictly between 0 and 1 and strictly increases
\* with the frame index (half_window = w / 2, integer-truncated).
C3_OneChangeIsMonotonic ==
    (Planned /\ num_quick_changes = 1) =>
        LET o == quick_change_frames[1]
            h == quick_change_length_frames \div 2
            pre == quick_changes_in_name_order[1][1]
            post == quick_changes_in_name_order[1][2]
        IN  \A k \in SavedFrames :
              /\ k < o - h => FrameImage(k) = ColourMorphOf(pre, k)
              /\ k >= o + h => FrameImage(k) = ColourMorphOf(post, k)
              /\ (o - h <= k /\ k < o + h) =>
                    /\ FrameImage(k)[1] = "avg"
                    /\ FrameImage(k)[2] = ColourMorphOf(pre, k)
                    /\ FrameImage(k)[3] = ColourMorphOf(post, k)
                    /\ FrameImage(k)[4] + FrameImage(k)[5] = FrameImage(k)[6]
                    /\ 0 < FrameImage(k)[5]
                    /\ FrameImage(k)[5] < FrameImage(k)[6]
                    /\ (k + 1 \in SavedFrames /\ k + 1 < o + h) =>
                          FrameImage(k)[5] * FrameImage(k + 1)[6]
                             < FrameImage(k + 1)[5] * FrameImage(k)[6]

\* all frames of a one-change scene are saved; the window holds two or more
\* frames and has frames before and after it
C3_Witness ==
    /\ pc = "video"
    /\ num_quick_changes = 1
    /\ HalfWindow >= 1
    /\ quick_change_frames[1] - HalfWindow >= 1
    /\ quick_change_frames[1] + HalfWindow <= number_of_morph_steps

\* C4 (as claimed): a scene with no quick change and both its stills is
\* processed without failure, and its total_frames + 1 frames are the pure
\* colour blends of the start and end stills with weight k / total_frames.
C4_NoChangeSceneIsPureColourMorph ==
    (InScene /\ num_quick_changes = 0 /\ MissingStills = {}) =>
        /\ pc # "crashed"
        /\ pc \in {"video", "cleanup"} =>
              /\ SavedFrames = 0..number_of_morph_steps
              /\ \A k \in SavedFrames :
                    FrameImage(k) =
                       Average(Still(FileName(<<filename_root[1], slow_change_options[1]>>, "jpg")),
                               Still(FileName(<<filename_root[1], slow_change_options[2]>>, "jpg")),
                               number_of_morph_steps - k, k, number_of_morph_steps)

\* C5 (as claimed): a scene with all its stills and one or more quick changes
\* is synthesized without a failed read, one frame per index 0..total_frames,
\* in increasing order.
C5_CompleteSceneIsSynthesized ==
    (InScene /\ num_quick_changes >= 1 /\ MissingStills = {}) =>
        /\ pc # "crashed"
        /\ pc = "frame" => SavedFrames = 0..(curr_frame_index - 1)
        /\ pc \in {"video", "cleanup"} => SavedFrames = 0..number_of_morph_steps

\* C6 (as claimed): when one declared still of a scene is missing and the
\* scene aborts, no frame has been synthesized and README.txt has no
\* paragraph for the scene.
C6_MissingStillAbortsBeforeManifest ==
    (pc = "crashed" /\ Cardinality(MissingStills) = 1) =>
        /\ DOMAIN temp_path = {}
        /\ DOMAIN morph_path = {}
        /\ \A i \in 1..Len(readme) : readme[i].scene # filename_root[1]

\* C7 (as claimed): a scene with a declared still missing never gets as far
\* as its video.
C7_MissingStillIsFatal ==
    ~(pc = "cleanup" /\ MissingStills # {})

\* C8 (as claimed): a failure in one scene does not end the batch: the
\* script never stops with a scene of the folder not attempted.
C8_BatchContinuesAfterFailure ==
    pc \in {"crashed", "done"} => attempted = FilenameRoots

\* the listing of morph_path
MorphPathFiles ==
    DOMAIN morph_path \cup (IF makeVideo_txt.exists THEN {MakeVideoTxtName} ELSE {})

\* one or more scenes have completed and none is in progress
AfterCompletedScene == pc \in {"loop", "done"} /\ Len(videos) >= 1

\* C9 (as claimed): after a scene completes, temp_path and morph_path hold no
\* file at all.
C9_ScratchDirectoriesEmpty ==
    AfterCompletedScene => (DOMAIN temp_path = {} /\ MorphPathFiles = {})

\* C9 (amended): after a scene completes, temp_path holds no file and
\* morph_path holds no frame; the one file left in morph_path is
\* makeVideo.txt, truncated to length zero.
C9_ScratchDirectoriesCleared ==
    AfterCompletedScene =>
        /\ DOMAIN temp_path = {}
        /\ MorphPathFiles = {MakeVideoTxtName}
        /\ makeVideo_txt.lines = << >>

\* two scenes have completed in sequence
C9_Witness == pc = "done" /\ Len(videos) >= 2

\* the averaged morphs left in temp_path for change i: frame index -> image
ChangePosition(i) ==
    CHOOSE q \in 1..num_quick_changes :
        quick_changes_in_name_order[q] = all_quick_change_options[i]

TransitionFrames(i) ==
    { k \in 0..number_of_morph_steps :
        \E n \in DOMAIN temp_path :
            n.segs[2] = MorphToken(k) /\ n.segs[ChangePosition(i) + 2] = "avg" }

TransitionImage(i, k) ==
    temp_path[CHOOSE n \in DOMAIN temp_path :
                 n.segs[2] = MorphToken(k) /\ n.segs[ChangePosition(i) + 2] = "avg"]

\* C10 (as claimed): a change whose window lies inside 0..total_frames is in
\* transition on exactly w frames, with count = w, w-1, ..., 1 in that order
\* and weight 1 - count / (w + 1) toward the post-change image.
C10_ChangeLastsWindowLength ==
    pc \in {"video", "cleanup"} =>
        \A i \in 1..num_quick_changes :
            LET o == quick_change_frames[i]
                w == quick_change_length_frames
            IN  (o - w >= 0 /\ o + w <= number_of_morph_steps) =>
                   /\ Cardinality(TransitionFrames(i)) = w
                   /\ \E first \in 0..number_of_morph_steps :
                         /\ TransitionFrames(i) = first..(first + w - 1)
                         /\ \A c \in 1..w :
                               /\ TransitionImage(i, first + w - c)[4] * (w + 1)
                                     = c * TransitionImage(i, first + w - c)[6]
                               /\ TransitionImage(i, first + w - c)[5] * (w + 1)
                                     = (w + 1 - c) * TransitionImage(i, first + w - c)[6]

\* the place in the processing order of the change at name position q
ProcessingIndex(q) ==
    CHOOSE i \in 1..num_quick_changes :
        all_quick_change_options[i] = quick_changes_in_name_order[q]

\* the value of change i (in processing order) that its own pass selects at
\* frame k: pre-change before its window, "avg" inside, post-change after
FoldedValue(i, k) ==
    LET o == quick_change_frames[i]
        h == quick_change_length_frames \div 2
    IN  IF k >= o + h THEN all_quick_change_options[i][2]
        ELSE IF InTransitionWindow(k, o) THEN "avg"
        ELSE all_quick_change_options[i][1]

\* the fold: the name of frame k after the passes of changes 1..j, every
\* later change still at its pre-change value
FoldedName(k, j) ==
    FileName(<<filename_root[1], MorphToken(k)>>
                \o [q \in 1..num_quick_changes |->
                        IF ProcessingIndex(q) <= j
                        THEN FoldedValue(ProcessingIndex(q), k)
                        ELSE all_quick_change_options[ProcessingIndex(q)][1]],
             "jpg")

\* the quick-change values of the stills a colour morph was made from
ValuesOf(img) == SubSeq(img[2][2].segs, 3, num_quick_changes + 2)

IsColourMorphAt(img, k) ==
    /\ img[1] = "avg"
    /\ img[2][1] = "still"
    /\ img[3][1] = "still"
    /\ img[2][2].segs[2] = slow_change_options[1]
    /\ img[3][2].segs[2] = slow_change_options[2]
    /\ SubSeq(img[3][2].segs, 3, num_quick_changes + 2) = ValuesOf(img)
    /\ img[5] = k
    /\ img[6] = number_of_morph_steps

StillWithAll(c, v) ==
    Still(FileName(<<filename_root[1], c>>
                      \o [q \in 1..num_quick_changes |->
                              quick_changes_in_name_order[q][v]],
                   "jpg"))

\* the start-colour still with weight 1, every change at its pre-change value
PureStartState ==
    Average(StillWithAll(slow_change_options[1], 1),
            StillWithAll(slow_change_options[2], 1),
            number_of_morph_steps, 0, number_of_morph_steps)

\* the end-colour still with weight 1, every change at its post-change value
PureEndState ==
    Average(StillWithAll(slow_change_options[1], 2),
            StillWithAll(slow_change_options[2], 2),
            0, number_of_morph_steps, number_of_morph_steps)

\* C12 (as claimed): in a scene with one or more quick changes, whatever
\* moments are drawn, frame 0 is the start-colour still with every change at
\* its pre-change value and frame total_frames is the end-colour still with
\* every change at its post-change value: onset - half_window > 0 and
\* onset + half_window <= total_frames for every change.
C12_HeldFramesArePureStates ==
    (Planned /\ num_quick_changes >= 1) =>
        /\ 0 \in SavedFrames =>
              /\ FrameImage(0) = PureStartState
              /\ \A i \in 1..num_quick_changes :
                    quick_change_frames[i] - (quick_change_length_frames \div 2) > 0
        /\ number_of_morph_steps \in SavedFrames =>
              /\ FrameImage(number_of_morph_steps) = PureEndState
              /\ \A i \in 1..num_quick_changes :
                    quick_change_frames[i] + (quick_change_length_frames \div 2)
                       <= number_of_morph_steps

====
